---- MODULE Spec2Model ----
(***************************************************************************)
(* Plan / order accounting of the food portal: the "users" and "Orders"    *)
(* collections of the document store, the customer's cart session, the     *)
(* owner's screens and the approve handlers, one step per store operation  *)
(* each handler awaits.                                                    *)
(***************************************************************************)
EXTENDS Integers, Sequences, FiniteSets, Bags, TLC

\* ------------------------------------------------------------- bounds
MaxOrders  == 1     \* documents in the Orders collection
MaxTime    == 31    \* last day the clock reaches
MaxLineQty == 11    \* largest quantity a cart line is followed to
MaxRuns    == 1     \* approve handlers awaiting the store at once
MaxPlacing == 2     \* handleCheckout calls awaiting addDoc at once
MaxLines   == 2     \* lines of a calculatePrice input
MaxCalcQty == 2     \* largest quantity of a calculatePrice input line
TwoOrders  == 2     \* documents in Orders, where two orders are followed
TwoRuns    == 2     \* approve handlers in progress, where races are followed
MaxCapOrders == 5   \* documents in Orders, where the per-item cap is followed

\* -------------------------------------------------- program constants
PLAN_CAPACITY == 30
PER_ITEM_MAX  == 5
PLAN_DAYS     == 30
CART_LINE_CAP == 10
\* a field that is absent from a document, or null
NULL == -1

Customers == {"c1", "c2"}
\* the customer whose sessions the specifications follow
Actors == {"c1"}
\* two entries of MENU
Items == {"paneer-sandwich", "mix-veg-sandwich"}
\* the item added unit by unit, the setCartQty arguments, the line quantities and
\* the clock steps the specifications follow
LedgerItems == {"paneer-sandwich"}
LedgerQtyInputs == {10}
LedgerLineQtys == {10, 11}
LedgerDaySteps == {PLAN_DAYS + 1}
\* the setCartQty arguments and the line quantities followed to the per-item cap
ItemCapQtyInputs == {PER_ITEM_MAX + 1}
ItemCapLineQtys == {1, PER_ITEM_MAX + 1}
\* the setCartQty arguments followed where lines are removed unit by unit
CartQtyInputs == {0, 3}

MenuPrice(i) == CASE i = "paneer-sandwich" -> 95
                  [] i = "mix-veg-sandwich" -> 65
                  [] OTHER -> 0

MenuName(i) == CASE i = "paneer-sandwich" -> "Paneer Sandwich"
                 [] i = "mix-veg-sandwich" -> "Mix Veg Sandwich"
                 [] OTHER -> i

Max(a, b) == IF a >= b THEN a ELSE b
Min(a, b) == IF a <= b THEN a ELSE b

RECURSIVE SumOver(_, _)
\* items.reduce((s, it) => s + it.quantity, 0) over a map item -> quantity
SumOver(f, S) == IF S = {} THEN 0
                 ELSE LET x == CHOOSE y \in S : TRUE
                      IN  f[x] + SumOver(f, S \ {x})

TotalQty(items) == SumOver(items, DOMAIN items)

TotalPrice(items) == SumOver([i \in DOMAIN items |-> items[i] * MenuPrice(i)], DOMAIN items)

EmptyCart == [i \in {} |-> 0]

\* --------------------------------------------------------------- state
VARIABLES
    users,        \* "users" collection: customer -> document
    orders,       \* "Orders" collection: order id (index) -> document
    now,          \* the clock, in days
    route,        \* customer -> the screen App shows that session
    cart,         \* customer -> cart of the UserPortal session
    placing,      \* customer -> handleCheckout calls awaiting addDoc
    runs,         \* approve handlers in progress
    last,         \* the handler that completed last, and what it saw
    calc          \* an evaluation of calculatePrice

vars == <<users, orders, now, route, cart, placing, runs, last, calc>>

NoDoc == [exists |-> FALSE, paid |-> FALSE, paymentSubmitted |-> FALSE,
          totalMeals |-> NULL, mealsRemaining |-> NULL,
          startDate |-> NULL, endDate |-> NULL,
          receipt |-> FALSE, paymentStatus |-> "none"]

NoLast == [op |-> "none", user |-> "none", order |-> 0, res |-> "none",
           st0 |-> "none", rem0 |-> NULL]

NoCalc == [items |-> <<>>, isExtra |-> FALSE, out |-> NULL]

Did(op, u, o, res) == [NoLast EXCEPT !.op = op, !.user = u, !.order = o, !.res = res]

OrderIds == 1..Len(orders)

Init ==
    /\ users = [u \in Customers |-> NoDoc]
    /\ orders = <<>>
    /\ now = 0
    /\ route = [u \in Customers |-> "login"]
    /\ cart = [u \in Customers |-> EmptyCart]
    /\ placing = [u \in Customers |-> 0]
    /\ runs = EmptyBag
    /\ last = NoLast
    /\ calc = NoCalc

\* ------------------------------------------------------- plan helpers
planPaid(u) == users[u].exists /\ users[u].paid

planStart(u) == IF users[u].exists THEN users[u].startDate ELSE NULL

planEnd(u) == IF users[u].exists THEN users[u].endDate ELSE NULL

\* the customer's plan orders in the current plan period, whatever their status
userPlanOrders(u) ==
    IF ~planPaid(u) \/ planStart(u) = NULL \/ planEnd(u) = NULL THEN {}
    ELSE {k \in OrderIds :
            /\ orders[k].userID = u
            /\ ~orders[k].isExtraOrder
            /\ orders[k].date >= planStart(u)
            /\ orders[k].date <= planEnd(u)}

planUsedCount(u) ==
    SumOver([k \in userPlanOrders(u) |-> TotalQty(orders[k].items)], userPlanOrders(u))

planRemaining(u) == Max(0, PLAN_CAPACITY - planUsedCount(u))

\* a count that adds up the item's quantities over the plan orders of the period
itemPlanCounts_SumsQuantity(u, i) ==
    SumOver([k \in userPlanOrders(u) |-> IF i \in DOMAIN orders[k].items THEN orders[k].items[i] ELSE 0], userPlanOrders(u))

\* plan orders of the period that hold a line of the item
itemPlanCounts(u, i) ==
    Cardinality({k \in userPlanOrders(u) : i \in DOMAIN orders[k].items})

cartTotalQty(u) == TotalQty(cart[u])

\* the status label of the owner's dashboard: paid and endDate >= now
PlanActive(u) ==
    /\ users[u].exists
    /\ users[u].paid
    /\ users[u].endDate # NULL
    /\ users[u].endDate >= now

\* plan.totalMeals as the dashboard reads it
TotalMealsOf(u) == IF users[u].totalMeals = NULL THEN 30 ELSE users[u].totalMeals

\* ------------------------------------------------------ cart helpers
SetLine(c, i, q) == [j \in (DOMAIN c) \cup {i} |-> IF j = i THEN q ELSE c[j]]

DropLine(c, i) == [j \in (DOMAIN c) \ {i} |-> c[j]]

LineQty(c, i) == IF i \in DOMAIN c THEN c[i] ELSE 0

\* the cart's line quantities all lie in the set a specification follows
Followed(c, qtys) == \A i \in DOMAIN c : c[i] \in qtys

\* the checks of addToCart with the per-item test ahead of the plan-full test
AddResult_ItemFirst(u, i) ==
    IF planPaid(u) THEN
        IF itemPlanCounts(u, i) >= PER_ITEM_MAX THEN "ItemMaxedForPlan"
        ELSE IF planRemaining(u) <= 0 THEN "PlanFull"
        ELSE IF cartTotalQty(u) + 1 > planRemaining(u) THEN "ExceedsRemainingCapacity"
        ELSE "ok"
    ELSE "ok"

\* the alert addToCart ends with, "ok" when it goes on to setCart
AddResult(u, i) ==
    IF planPaid(u) THEN
        IF planRemaining(u) <= 0 THEN "PlanFull"
        ELSE IF itemPlanCounts(u, i) >= PER_ITEM_MAX THEN "ItemMaxedForPlan"
        ELSE IF cartTotalQty(u) + 1 > planRemaining(u) THEN "ExceedsRemainingCapacity"
        ELSE "ok"
    ELSE "ok"

\* isExtraOrder as handleCheckout decides it for the customer's cart
ExtraDecision(u, totalQty) ==
    IF planPaid(u) THEN ~(totalQty <= planRemaining(u)) ELSE TRUE

NewOrder(u) ==
    [userID |-> u,
     items |-> cart[u],
     totalQty |-> TotalQty(cart[u]),
     totalPrice |-> TotalPrice(cart[u]),
     status |-> "pending",
     isExtraOrder |-> ExtraDecision(u, TotalQty(cart[u])),
     date |-> now]

\* ------------------------------------------------- sign-up and routing
SignUp(u) ==
    /\ ~users[u].exists
    /\ users' = [users EXCEPT ![u] = [NoDoc EXCEPT !.exists = TRUE, !.mealsRemaining = 30]]
    /\ last' = NoLast
    /\ UNCHANGED <<orders, now, route, cart, placing, runs, calc>>

\* onAuthStateChanged: the screen follows paymentStatus as read at that moment;
\* the portal mounts with an empty cart
Login(u) ==
    /\ users[u].exists
    /\ route' = [route EXCEPT ![u] =
                    IF users[u].paymentStatus = "approved" THEN "portal" ELSE "payment"]
    /\ cart' = [cart EXCEPT ![u] = EmptyCart]
    /\ placing' = [placing EXCEPT ![u] = 0]
    /\ last' = NoLast
    /\ UNCHANGED <<users, orders, now, runs, calc>>

\* PaymentPage: save the receipt and the profile
HandleUpload(u) ==
    /\ route[u] = "payment"
    /\ users' = [users EXCEPT ![u] =
                    IF users[u].exists
                    THEN [users[u] EXCEPT !.paid = FALSE, !.paymentSubmitted = TRUE,
                                          !.receipt = TRUE, !.paymentStatus = "pending"]
                    ELSE [NoDoc EXCEPT !.exists = TRUE, !.paymentSubmitted = TRUE,
                                       !.receipt = TRUE, !.paymentStatus = "pending"]]
    /\ last' = [Did("handleUpload", u, 0, "ok") EXCEPT !.rem0 = users[u].mealsRemaining]
    /\ UNCHANGED <<orders, now, route, cart, placing, runs, calc>>

\* ----------------------------------------------------------------- cart
\* an add whose alerts do not return
AddToCart_AddsAnyway(u, i) ==
    /\ route[u] = "portal"
    /\ LineQty(cart[u], i) < MaxLineQty
    /\ cart' = [cart EXCEPT ![u] = SetLine(cart[u], i, LineQty(cart[u], i) + 1)]
    /\ last' = Did("addToCart", u, 0, AddResult(u, i))
    /\ UNCHANGED <<users, orders, now, route, placing, runs, calc>>

AddToCart(u, i) ==
    /\ route[u] = "portal"
    /\ LineQty(cart[u], i) < MaxLineQty
    /\ cart' = IF AddResult(u, i) = "ok"
               THEN [cart EXCEPT ![u] = SetLine(cart[u], i, LineQty(cart[u], i) + 1)]
               ELSE cart
    /\ last' = Did("addToCart", u, 0, AddResult(u, i))
    /\ UNCHANGED <<users, orders, now, route, placing, runs, calc>>

\* a remove that keeps the line it has brought to 0
RemoveFromCart_KeepsZeroLine(u, i) ==
    /\ route[u] = "portal"
    /\ cart' = IF LineQty(cart[u], i) = 0 THEN cart
               ELSE [cart EXCEPT ![u] = SetLine(cart[u], i, Max(0, cart[u][i] - 1))]
    /\ last' = NoLast
    /\ UNCHANGED <<users, orders, now, route, placing, runs, calc>>

RemoveFromCart(u, i) ==
    /\ route[u] = "portal"
    /\ cart' = IF LineQty(cart[u], i) = 0 THEN cart
               ELSE IF Max(0, cart[u][i] - 1) = 0
                    THEN [cart EXCEPT ![u] = DropLine(cart[u], i)]
                    ELSE [cart EXCEPT ![u] = SetLine(cart[u], i, Max(0, cart[u][i] - 1))]
    /\ last' = NoLast
    /\ UNCHANGED <<users, orders, now, route, placing, runs, calc>>

SetCartQty(u, i, qty) ==
    /\ route[u] = "portal"
    /\ cart' = [cart EXCEPT ![u] = SetLine(cart[u], i, Max(0, Min(CART_LINE_CAP, qty)))]
    /\ last' = NoLast
    /\ UNCHANGED <<users, orders, now, route, placing, runs, calc>>

ClearCart(u) ==
    /\ route[u] = "portal"
    /\ cart[u] # EmptyCart
    /\ cart' = [cart EXCEPT ![u] = EmptyCart]
    /\ last' = NoLast
    /\ UNCHANGED <<users, orders, now, route, placing, runs, calc>>

\* ------------------------------------------------------------- checkout
\* a checkout without the test of an empty cart
HandleCheckout_NoEmptyCheck(u) ==
    /\ route[u] = "portal"
    /\ users[u].exists
    /\ placing[u] < MaxPlacing
    /\ orders' = Append(orders, NewOrder(u))
    /\ placing' = [placing EXCEPT ![u] = @ + 1]
    /\ last' = Did("checkout", u, Len(orders) + 1, "ok")
    /\ UNCHANGED <<users, now, route, cart, runs, calc>>

\* handleCheckout up to the addDoc it awaits; the write is committed
HandleCheckout(u) ==
    /\ route[u] = "portal"
    /\ users[u].exists
    /\ IF DOMAIN cart[u] = {}
       THEN /\ last' = Did("checkout", u, 0, "EmptyCart")
            /\ UNCHANGED <<orders, placing>>
       ELSE /\ placing[u] < MaxPlacing
            /\ orders' = Append(orders, NewOrder(u))
            /\ placing' = [placing EXCEPT ![u] = @ + 1]
            /\ last' = Did("checkout", u, Len(orders) + 1, "ok")
    /\ UNCHANGED <<users, now, route, cart, runs, calc>>

\* handleCheckout whose addDoc is rejected by the store: the catch branch
HandleCheckoutFails(u) ==
    /\ route[u] = "portal"
    /\ users[u].exists
    /\ DOMAIN cart[u] # {}
    /\ last' = Did("checkout", u, 0, "failed")
    /\ UNCHANGED <<users, orders, now, route, cart, placing, runs, calc>>

\* a resolved checkout that leaves the cart as it is
CheckoutResolved_KeepsCart(u) ==
    /\ placing[u] > 0
    /\ placing' = [placing EXCEPT ![u] = @ - 1]
    /\ last' = NoLast
    /\ UNCHANGED <<users, orders, now, route, cart, runs, calc>>

\* the awaited addDoc resolves: clearCart
CheckoutResolved(u) ==
    /\ placing[u] > 0
    /\ placing' = [placing EXCEPT ![u] = @ - 1]
    /\ cart' = [cart EXCEPT ![u] = EmptyCart]
    /\ last' = NoLast
    /\ UNCHANGED <<users, orders, now, route, runs, calc>>

\* ------------------------------------------------- receipt and renewal
HandleUploadReceipt(u) ==
    /\ route[u] = "portal"
    /\ ~planPaid(u)
    /\ users' = [users EXCEPT ![u] = [@ EXCEPT !.paymentSubmitted = TRUE, !.receipt = TRUE]]
    /\ last' = NoLast
    /\ UNCHANGED <<orders, now, route, cart, placing, runs, calc>>

\* a renewal whose button is rendered for every paid plan
HandleRenewPlan_AlwaysOffered(u) ==
    /\ route[u] = "portal"
    /\ planPaid(u)
    /\ users' = [users EXCEPT ![u] = [@ EXCEPT !.paymentSubmitted = TRUE, !.paid = FALSE,
                                               !.mealsRemaining = 0,
                                               !.startDate = NULL, !.endDate = NULL]]
    /\ last' = Did("handleRenewPlan", u, 0, "ok")
    /\ UNCHANGED <<orders, now, route, cart, placing, runs, calc>>

\* the Renew Plan button is rendered when planPaid and mealsRemaining ?? 0 <= 0
HandleRenewPlan(u) ==
    /\ route[u] = "portal"
    /\ planPaid(u)
    /\ (IF users[u].mealsRemaining = NULL THEN 0 ELSE users[u].mealsRemaining) <= 0
    /\ users' = [users EXCEPT ![u] = [@ EXCEPT !.paymentSubmitted = TRUE, !.paid = FALSE,
                                               !.mealsRemaining = 0,
                                               !.startDate = NULL, !.endDate = NULL]]
    /\ last' = Did("handleRenewPlan", u, 0, "ok")
    /\ UNCHANGED <<orders, now, route, cart, placing, runs, calc>>

\* ---------------------------------------------------- payment approval
\* users the owner's dashboard lists (approvedUsers) and the payment requests
\* (pendingPayments)
InApprovedUsers(u) == users[u].exists /\ (users[u].paid \/ users[u].paymentStatus = "approved")

InPendingPayments(u) ==
    users[u].exists /\ (users[u].paymentSubmitted \/ users[u].paymentStatus = "pending")

\* an approval that activates the plan and keeps the balance it finds
ApprovePayment_KeepsBalance(u) ==
    /\ \/ InApprovedUsers(u) /\ users[u].paymentSubmitted
       \/ InPendingPayments(u) /\ users[u].receipt
    /\ users' = [users EXCEPT ![u] = [@ EXCEPT !.paid = TRUE, !.paymentSubmitted = FALSE,
                                               !.startDate = now, !.endDate = now + PLAN_DAYS,
                                               !.totalMeals = 30,
                                               !.paymentStatus = "approved"]]
    /\ last' = Did("approvePayment", u, 0, "ok")
    /\ UNCHANGED <<orders, now, route, cart, placing, runs, calc>>

\* an approval that marks the plan paid and leaves its dates as they are
ApprovePayment_NoDates(u) ==
    /\ \/ InApprovedUsers(u) /\ users[u].paymentSubmitted
       \/ InPendingPayments(u) /\ users[u].receipt
    /\ users' = [users EXCEPT ![u] = [@ EXCEPT !.paid = TRUE, !.paymentSubmitted = FALSE,
                                               !.totalMeals = 30, !.mealsRemaining = 30,
                                               !.paymentStatus = "approved"]]
    /\ last' = [Did("approvePayment", u, 0, "ok") EXCEPT
                    !.rem0 = users[u].mealsRemaining,
                    !.st0 = IF PlanActive(u) THEN "active"
                            ELSE IF users[u].paid THEN "expired"
                            ELSE IF users[u].paymentSubmitted THEN "submitted"
                            ELSE "inactive"]
    /\ UNCHANGED <<orders, now, route, cart, placing, runs, calc>>

\* Owner.js approvePayment, behind its two Approve Payment buttons
ApprovePayment(u) ==
    /\ \/ InApprovedUsers(u) /\ users[u].paymentSubmitted
       \/ InPendingPayments(u) /\ users[u].receipt
    /\ users' = [users EXCEPT ![u] = [@ EXCEPT !.paid = TRUE, !.paymentSubmitted = FALSE,
                                               !.startDate = now, !.endDate = now + PLAN_DAYS,
                                               !.totalMeals = 30, !.mealsRemaining = 30,
                                               !.paymentStatus = "approved"]]
    /\ last' = [Did("approvePayment", u, 0, "ok") EXCEPT
                    !.rem0 = users[u].mealsRemaining,
                    !.st0 = IF PlanActive(u) THEN "active"
                            ELSE IF users[u].paid THEN "expired"
                            ELSE IF users[u].paymentSubmitted THEN "submitted"
                            ELSE "inactive"]
    /\ UNCHANGED <<orders, now, route, cart, placing, runs, calc>>

\* UserPortal.js ownerApprovePlan, behind Approve & Activate of the owner panel,
\* which the component renders when it is given isOwner
OwnerApprovePlan(u) ==
    /\ users[u].exists
    /\ users[u].paymentSubmitted
    /\ users' = [users EXCEPT ![u] = [@ EXCEPT !.paid = TRUE, !.paymentSubmitted = FALSE,
                                               !.startDate = now, !.endDate = now + PLAN_DAYS,
                                               !.totalMeals = PLAN_CAPACITY,
                                               !.mealsRemaining = PLAN_CAPACITY]]
    /\ last' = [Did("ownerApprovePlan", u, 0, "ok") EXCEPT
                    !.rem0 = users[u].mealsRemaining,
                    !.st0 = IF PlanActive(u) THEN "active"
                            ELSE IF users[u].paid THEN "expired"
                            ELSE IF users[u].paymentSubmitted THEN "submitted"
                            ELSE "inactive"]
    /\ UNCHANGED <<orders, now, route, cart, placing, runs, calc>>

\* Mark for Renew on a dashboard card
MarkForRenew(u) ==
    /\ InApprovedUsers(u)
    /\ ~users[u].paymentSubmitted
    /\ users' = [users EXCEPT ![u] = [@ EXCEPT !.paymentSubmitted = TRUE]]
    /\ last' = NoLast
    /\ UNCHANGED <<orders, now, route, cart, placing, runs, calc>>

\* ------------------------------------------------------ order approval
\* A run is an approve handler between two of its awaited store calls; runs is
\* the bag of the runs in progress.
Busy == BagToSet(runs)

Finish(r) == runs (-) SetToBag({r})

Move(r, r2) == (runs (-) SetToBag({r})) (+) SetToBag({r2})

\* what the store holds for the order when a handler is invoked: its status, or
\* "racing" while another approve of the same order is still in progress
StatusAtCall(o) ==
    IF \E r \in Busy : r.order = o THEN "racing" ELSE orders[o].status

\* An owner session lists an order among the not approved ones (Approve Order and
\* Cancel in Owner.js, Approve in the owner panel) until its listener delivers the
\* approval. Any number of owner sessions are open, each as stale as the network
\* makes it, so some session lists every order of the store that way.
Listed(o) == o \in OrderIds

StartRun(impl, o, pc) ==
    [impl |-> impl, order |-> o, pc |-> pc, currRem |-> NULL,
     st0 |-> StatusAtCall(o), rem0 |-> users[orders[o].userID].mealsRemaining]

\* the record of a handler run that ends
Ended(r, res) ==
    [op |-> "approveOrder", user |-> orders[r.order].userID, order |-> r.order,
     res |-> res, st0 |-> r.st0, rem0 |-> r.rem0]

\* Number(mealsRemaining ?? 30) of the user document read
ReadRem(u) == IF users[u].mealsRemaining = NULL THEN 30 ELSE users[u].mealsRemaining

\* the subtraction without its floor
After_Unclamped(currRem, qty) == currRem - qty

\* Math.max(0, currRem - qty)
After(currRem, qty) == Max(0, currRem - qty)

\* an approveOrder that goes on to the plan whatever the order's isExtraOrder
ApproveOrder_IgnoresExtra(o) ==
    /\ Listed(o)
    /\ orders' = [orders EXCEPT ![o].status = "approved"]
    /\ runs' = runs (+) SetToBag({StartRun("owner", o, "read")})
    /\ last' = NoLast
    /\ UNCHANGED <<users, now, route, cart, placing, calc>>

\* Owner.js approveOrder up to the end of its first await: the order is written
\* approved (with approvedAt, a field no code reads and the model leaves out)
ApproveOrder(o) ==
    /\ Listed(o)
    /\ orders' = [orders EXCEPT ![o].status = "approved"]
    /\ IF ~orders[o].isExtraOrder
       THEN /\ runs' = runs (+) SetToBag({StartRun("owner", o, "read")})
            /\ last' = NoLast
       ELSE /\ runs' = runs
            /\ last' = [Did("approveOrder", orders[o].userID, o, "approved") EXCEPT
                            !.st0 = StatusAtCall(o),
                            !.rem0 = users[orders[o].userID].mealsRemaining]
    /\ UNCHANGED <<users, now, route, cart, placing, calc>>

\* Owner.js approveOrder: getDoc of the user
ApproveOrderRead(r) ==
    /\ r.impl = "owner" /\ r.pc = "read"
    /\ IF users[orders[r.order].userID].exists
       THEN /\ runs' = Move(r, [r EXCEPT !.pc = "write",
                                         !.currRem = ReadRem(orders[r.order].userID)])
            /\ last' = NoLast
       ELSE /\ runs' = Finish(r)
            /\ last' = Ended(r, "approved")
    /\ UNCHANGED <<users, orders, now, route, cart, placing, calc>>

\* a plan write that goes to the customer of the first order of the listing
ApproveOrderWrite_FirstListed(r) ==
    /\ r.impl = "owner" /\ r.pc = "write"
    /\ users' = [users EXCEPT ![orders[1].userID].mealsRemaining =
                    After(r.currRem, TotalQty(orders[r.order].items))]
    /\ runs' = Finish(r)
    /\ last' = Ended(r, "approved")
    /\ UNCHANGED <<orders, now, route, cart, placing, calc>>

\* Owner.js approveOrder: updateDoc of plan.mealsRemaining, then the alert
ApproveOrderWrite(r) ==
    /\ r.impl = "owner" /\ r.pc = "write"
    /\ users' = [users EXCEPT ![orders[r.order].userID].mealsRemaining =
                    After(r.currRem, TotalQty(orders[r.order].items))]
    /\ runs' = Finish(r)
    /\ last' = Ended(r, "approved")
    /\ UNCHANGED <<orders, now, route, cart, placing, calc>>

\* UserPortal.js ownerApproveOrder, behind Approve of the owner panel: getDoc of
\* the order
OwnerApproveOrder(o) ==
    /\ Listed(o)
    /\ runs' = runs (+) SetToBag({StartRun("portal", o, "status")})
    /\ last' = NoLast
    /\ UNCHANGED <<users, orders, now, route, cart, placing, calc>>

\* ownerApproveOrder: updateDoc of the order status
OwnerApproveOrderStatus(r) ==
    /\ r.impl = "portal" /\ r.pc = "status"
    /\ orders' = [orders EXCEPT ![r.order].status = "approved"]
    /\ IF ~orders[r.order].isExtraOrder
       THEN /\ runs' = Move(r, [r EXCEPT !.pc = "read"])
            /\ last' = NoLast
       ELSE /\ runs' = Finish(r)
            /\ last' = Ended(r, "approved")
    /\ UNCHANGED <<users, now, route, cart, placing, calc>>

\* ownerApproveOrder: getDoc of the user
OwnerApproveOrderRead(r) ==
    /\ r.impl = "portal" /\ r.pc = "read"
    /\ IF users[orders[r.order].userID].exists
       THEN /\ runs' = Move(r, [r EXCEPT !.pc = "write",
                                         !.currRem =
                                            IF users[orders[r.order].userID].mealsRemaining = NULL
                                            THEN PLAN_CAPACITY
                                            ELSE users[orders[r.order].userID].mealsRemaining])
            /\ last' = NoLast
       ELSE /\ runs' = Finish(r)
            /\ last' = Ended(r, "approved")
    /\ UNCHANGED <<users, orders, now, route, cart, placing, calc>>

\* ownerApproveOrder: updateDoc of plan.mealsRemaining, then the alert
OwnerApproveOrderWrite(r) ==
    /\ r.impl = "portal" /\ r.pc = "write"
    /\ users' = [users EXCEPT ![orders[r.order].userID].mealsRemaining =
                    Max(0, r.currRem - TotalQty(orders[r.order].items))]
    /\ runs' = Finish(r)
    /\ last' = Ended(r, "approved")
    /\ UNCHANGED <<orders, now, route, cart, placing, calc>>

\* the "Users" collection functions.js reads: no code of the repository creates a
\* document in it (sign-up and the payment page write "users")
LegacyUsersDoc(u) == NoDoc

\* functions.js approveOrder(orderID, userID, items), called with an order of the
\* store: updateDoc of the order status
LegacyApproveOrder(o) ==
    /\ o \in OrderIds
    /\ orders' = [orders EXCEPT ![o].status = "approved"]
    /\ runs' = runs (+) SetToBag({StartRun("legacy", o, "read")})
    /\ last' = NoLast
    /\ UNCHANGED <<users, now, route, cart, placing, calc>>

\* functions.js approveOrder: getDoc of Users/userID; userSnap.data() of a missing
\* document is undefined and userData.plan throws, before any write
LegacyApproveOrderRead(r) ==
    /\ r.impl = "legacy" /\ r.pc = "read"
    /\ ~LegacyUsersDoc(orders[r.order].userID).exists
    /\ runs' = Finish(r)
    /\ last' = Ended(r, "threw")
    /\ UNCHANGED <<users, orders, now, route, cart, placing, calc>>

\* an awaited store call of approveOrder / ownerApproveOrder rejects: the catch
\* branch ends the handler
ApproveOrderFails(r) ==
    /\ r.impl \in {"owner", "portal"}
    /\ runs' = Finish(r)
    /\ last' = Ended(r, "failed")
    /\ UNCHANGED <<users, orders, now, route, cart, placing, calc>>

\* Owner.js approveOrder called with an order whose document is not in the store:
\* updateDoc of a missing document rejects and the catch branch alerts the failure
ApproveOrderMissing ==
    /\ last' = Did("approveOrder", "none", Len(orders) + 1, "failed")
    /\ UNCHANGED <<users, orders, now, route, cart, placing, runs, calc>>

\* UserPortal.js ownerApproveOrder called with an id that is not in the store:
\* orderSnapshot.exists() is false and the handler returns with "Order not found."
OwnerApproveOrderMissing ==
    /\ last' = Did("approveOrder", "none", Len(orders) + 1, "OrderNotFound")
    /\ UNCHANGED <<users, orders, now, route, cart, placing, runs, calc>>

\* a cancel that replaces the document by its new status, as setDoc would
CancelOrder_Overwrites(o) ==
    /\ Listed(o)
    /\ orders' = [orders EXCEPT ![o] = [@ EXCEPT !.status = "cancelled",
                                                 !.items = EmptyCart,
                                                 !.totalQty = 0,
                                                 !.totalPrice = 0]]
    /\ last' = [Did("cancel", orders[o].userID, o, "ok") EXCEPT !.st0 = orders[o].status]
    /\ UNCHANGED <<users, now, route, cart, placing, runs, calc>>

\* Cancel of the pending list
CancelOrder(o) ==
    /\ Listed(o)
    /\ orders' = [orders EXCEPT ![o].status = "cancelled"]
    /\ last' = [Did("cancel", orders[o].userID, o, "ok") EXCEPT !.st0 = orders[o].status]
    /\ UNCHANGED <<users, now, route, cart, placing, runs, calc>>

Tick(d) ==
    /\ now + d <= MaxTime
    /\ now' = now + d
    /\ last' = NoLast
    /\ UNCHANGED <<users, orders, route, cart, placing, runs, calc>>

\* ------------------------------------------------------------ pricing
\* item names calculatePrice is evaluated on: the names of the catalog entries
\* followed, and the one name the function tells apart
CalcNames == {MenuName(i) : i \in Items} \cup {"Healthy Meal"}

CalcLines == [name : CalcNames, quantity : 1..MaxCalcQty]

CalcInputs == UNION {[1..n -> CalcLines] : n \in 0..MaxLines}

\* the catalog price of the entry with that name; 0 for a name not in MENU
CatalogPrice(name) ==
    IF \E i \in Items : MenuName(i) = name
    THEN MenuPrice(CHOOSE i \in Items : MenuName(i) = name)
    ELSE 0

RECURSIVE LinesSum(_, _)
\* items.forEach(item => price += (item.name === "Healthy Meal" ? 40 : 10) * item.quantity)
LinesSum(items, n) ==
    IF n = 0 THEN 0
    ELSE LinesSum(items, n - 1)
         + (IF items[n].name = "Healthy Meal" THEN 40 ELSE 10) * items[n].quantity

\* calculatePrice(items, isExtra), in tenths of a rupee. The sum is a multiple of
\* 10 and the double product of a multiple of 10 (up to 2000) by 1.2 is 12/10 of
\* it exactly, so price * 1.2 is price * 12 tenths.
calculatePrice(items, isExtra) ==
    IF isExtra THEN LinesSum(items, Len(items)) * 12
    ELSE LinesSum(items, Len(items)) * 10

\* Math.round of an amount in tenths, in rupees
Round(tenths) == (tenths + 5) \div 10

InitPrice ==
    /\ users = [u \in Customers |-> NoDoc]
    /\ orders = <<>>
    /\ now = 0
    /\ route = [u \in Customers |-> "login"]
    /\ cart = [u \in Customers |-> EmptyCart]
    /\ placing = [u \in Customers |-> 0]
    /\ runs = EmptyBag
    /\ last = NoLast
    /\ calc \in [items : CalcInputs, isExtra : BOOLEAN, out : {NULL}]

\* one evaluation of calculatePrice
CallCalculatePrice ==
    /\ calc.out = NULL
    /\ calc' = [calc EXCEPT !.out = calculatePrice(calc.items, calc.isExtra)]
    /\ UNCHANGED <<users, orders, now, route, cart, placing, runs, last>>

NextPrice == CallCalculatePrice

SpecPrice == InitPrice /\ [][NextPrice]_vars

\* ------------------------------------------------------ specification
CustomerStep(u) ==
    \/ SignUp(u)
    \/ Login(u)
    \/ HandleUpload(u)
    \/ \E i \in LedgerItems : AddToCart(u, i) /\ Followed(cart'[u], LedgerLineQtys)
    \/ \E i \in LedgerItems : RemoveFromCart(u, i) /\ Followed(cart'[u], LedgerLineQtys)
    \/ \E i \in LedgerItems : \E q \in LedgerQtyInputs : SetCartQty(u, i, q)
    \/ ClearCart(u)
    \/ HandleCheckout(u) /\ Len(orders') <= MaxOrders
    \/ HandleCheckoutFails(u)
    \/ CheckoutResolved(u)
    \/ HandleUploadReceipt(u)
    \/ HandleRenewPlan(u)

OwnerStep ==
    \/ \E u \in Actors : ApprovePayment(u)
    \/ \E u \in Actors : OwnerApprovePlan(u)
    \/ \E u \in Actors : MarkForRenew(u)
    \/ \E o \in OrderIds : ApproveOrder(o) /\ BagCardinality(runs') <= MaxRuns
    \/ \E o \in OrderIds : OwnerApproveOrder(o) /\ BagCardinality(runs') <= MaxRuns
    \/ \E o \in OrderIds : LegacyApproveOrder(o) /\ BagCardinality(runs') <= MaxRuns
    \/ \E o \in OrderIds : CancelOrder(o)
    \/ \E r \in Busy : ApproveOrderRead(r)
    \/ \E r \in Busy : ApproveOrderWrite(r)
    \/ \E r \in Busy : OwnerApproveOrderStatus(r)
    \/ \E r \in Busy : OwnerApproveOrderRead(r)
    \/ \E r \in Busy : OwnerApproveOrderWrite(r)
    \/ \E r \in Busy : LegacyApproveOrderRead(r)
    \/ \E r \in Busy : ApproveOrderFails(r)

Next ==
    \/ \E u \in Actors : CustomerStep(u)
    \/ OwnerStep
    \/ \E d \in LedgerDaySteps : Tick(d)

Spec == Init /\ [][Next]_vars

\* The plan ledger over two orders: one customer who pays, fills a cart of two
\* items and orders twice, and the owner's dashboard, which approves payments,
\* marks the plan for renewal and approves each order once, one handler at a time.
NextLedger ==
    \/ \E u \in Actors : SignUp(u)
    \/ \E u \in Actors : Login(u)
    \/ \E u \in Actors : HandleUpload(u)
    \/ \E u \in Actors : \E i \in LedgerItems :
          AddToCart(u, i) /\ Followed(cart'[u], LedgerLineQtys)
    \/ \E u \in Actors : \E i \in Items : \E q \in LedgerQtyInputs : SetCartQty(u, i, q)
    \/ \E u \in Actors : HandleCheckout(u) /\ Len(orders') <= TwoOrders
    \/ \E u \in Actors : CheckoutResolved(u)
    \/ \E u \in Actors : ApprovePayment(u)
    \/ \E u \in Actors : MarkForRenew(u)
    \/ \E o \in OrderIds :
          ApproveOrder(o) /\ StatusAtCall(o) = "pending" /\ BagCardinality(runs') <= MaxRuns
    \/ \E r \in Busy : ApproveOrderRead(r)
    \/ \E r \in Busy : ApproveOrderWrite(r)
    \/ \E d \in LedgerDaySteps : Tick(d)

SpecLedger == Init /\ [][NextLedger]_vars

\* Approvals racing on one activated plan: the customer pays once and places up
\* to no orders; an approve handler of either owner screen is started on an order
\* whose status at the call is in the set called, up to TwoRuns at once.
RaceStep(called, no) ==
    \/ \E u \in Actors : SignUp(u)
    \/ \E u \in Actors : Login(u)
    \/ \E u \in Actors : HandleUpload(u)
    \/ \E u \in Actors : ApprovePayment(u) /\ ~users[u].paid
    \/ \E u \in Actors : \E i \in LedgerItems : \E q \in LedgerQtyInputs : SetCartQty(u, i, q)
    \/ \E u \in Actors : \E i \in LedgerItems :
          AddToCart(u, i) /\ Followed(cart'[u], LedgerLineQtys)
    \/ \E u \in Actors : HandleCheckout(u) /\ Len(orders') <= no
    \/ \E u \in Actors : CheckoutResolved(u)
    \/ \E o \in OrderIds :
          ApproveOrder(o) /\ StatusAtCall(o) \in called /\ BagCardinality(runs') <= TwoRuns
    \/ \E o \in OrderIds :
          OwnerApproveOrder(o) /\ StatusAtCall(o) \in called /\ BagCardinality(runs') <= TwoRuns
    \/ \E r \in Busy : ApproveOrderRead(r)
    \/ \E r \in Busy : ApproveOrderWrite(r)
    \/ \E r \in Busy : OwnerApproveOrderStatus(r)
    \/ \E r \in Busy : OwnerApproveOrderRead(r)
    \/ \E r \in Busy : OwnerApproveOrderWrite(r)

\* every order is approved by one handler; handlers of different orders overlap
NextRace == RaceStep({"pending"}, TwoOrders)

SpecRace == Init /\ [][NextRace]_vars

\* one order; a second handler is started on it while the first is in progress
NextSame == RaceStep({"pending", "racing"}, MaxOrders)

SpecSame == Init /\ [][NextSame]_vars

\* one order; a handler is started on it again after the one before has ended
NextTwice == RaceStep({"pending", "approved"}, MaxOrders)

SpecTwice == Init /\ [][NextTwice]_vars

\* The owner's order screens used by one owner whose listing is up to date: Approve
\* Order, Approve and Cancel are offered on the orders whose status is not
\* "approved", one handler at a time; an awaited store call of a handler may reject.
\* The customer pays once and places up to TwoOrders orders of two items.
NextOrdersTab ==
    \/ \E u \in Actors : SignUp(u)
    \/ \E u \in Actors : Login(u)
    \/ \E u \in Actors : HandleUpload(u)
    \/ \E u \in Actors : ApprovePayment(u) /\ ~users[u].paid
    \/ \E u \in Actors : \E i \in Items : \E q \in LedgerQtyInputs : SetCartQty(u, i, q)
    \/ \E u \in Actors : HandleCheckout(u) /\ Len(orders') <= TwoOrders
    \/ \E u \in Actors : CheckoutResolved(u)
    \/ \E o \in OrderIds :
          ApproveOrder(o) /\ StatusAtCall(o) \in {"pending", "cancelled"}
                          /\ BagCardinality(runs') <= MaxRuns
    \/ \E o \in OrderIds :
          OwnerApproveOrder(o) /\ StatusAtCall(o) \in {"pending", "cancelled"}
                               /\ BagCardinality(runs') <= MaxRuns
    \/ \E o \in OrderIds :
          LegacyApproveOrder(o) /\ StatusAtCall(o) \in {"pending", "cancelled"}
                                /\ BagCardinality(runs') <= MaxRuns
    \/ \E o \in OrderIds : CancelOrder(o) /\ StatusAtCall(o) \in {"pending", "cancelled"}
    \/ \E r \in Busy : ApproveOrderRead(r)
    \/ \E r \in Busy : ApproveOrderWrite(r)
    \/ \E r \in Busy : OwnerApproveOrderStatus(r)
    \/ \E r \in Busy : OwnerApproveOrderRead(r)
    \/ \E r \in Busy : OwnerApproveOrderWrite(r)
    \/ \E r \in Busy : LegacyApproveOrderRead(r)
    \/ \E r \in Busy : ApproveOrderFails(r)

SpecOrdersTab == Init /\ [][NextOrdersTab]_vars

\* The per-item cap: the customer pays once and places up to MaxCapOrders orders,
\* each of one line: one unit of either item or PER_ITEM_MAX + 1 units of the
\* first, one checkout at a time; the owner approves the pending orders oldest
\* first, one handler at a time.
OneLine(c) == Cardinality(DOMAIN c) <= 1

NextItemCap ==
    \/ \E u \in Actors : SignUp(u)
    \/ \E u \in Actors : Login(u)
    \/ \E u \in Actors : HandleUpload(u)
    \/ \E u \in Actors : ApprovePayment(u) /\ ~users[u].paid
    \/ \E u \in Actors : \E i \in LedgerItems : \E q \in ItemCapQtyInputs :
          SetCartQty(u, i, q) /\ OneLine(cart'[u])
    \/ \E u \in Actors : \E i \in Items :
          AddToCart(u, i) /\ Followed(cart'[u], ItemCapLineQtys) /\ OneLine(cart'[u])
    \/ \E u \in Actors : HandleCheckout(u) /\ placing[u] = 0 /\ Len(orders') <= MaxCapOrders
    \/ \E u \in Actors : CheckoutResolved(u)
    \/ \E o \in OrderIds :
          ApproveOrder(o) /\ StatusAtCall(o) = "pending"
                          /\ (\A k \in 1..(o - 1) : orders[k].status = "approved")
                          /\ BagCardinality(runs') <= MaxRuns
    \/ \E r \in Busy : ApproveOrderRead(r)
    \/ \E r \in Busy : ApproveOrderWrite(r)

SpecItemCap == Init /\ [][NextItemCap]_vars

\* The order screens of one owner, with approve calls on ids the store does not hold
NextNotFound ==
    \/ NextOrdersTab
    \/ ApproveOrderMissing
    \/ OwnerApproveOrderMissing

SpecNotFound == Init /\ [][NextNotFound]_vars

\* Two customers: each pays and places orders of one line, one checkout at a
\* time, up to TwoOrders in the store; the owner, whose listing is up to date,
\* approves payments and approves or cancels pending orders, one handler at a time.
NextPair ==
    \/ \E u \in Customers : SignUp(u)
    \/ \E u \in Customers : Login(u)
    \/ \E u \in Customers : HandleUpload(u)
    \/ \E u \in Customers : ApprovePayment(u) /\ ~users[u].paid
    \/ \E u \in Customers : OwnerApprovePlan(u) /\ ~users[u].paid
    \/ \E u \in Customers : \E i \in LedgerItems : \E q \in LedgerQtyInputs : SetCartQty(u, i, q)
    \/ \E u \in Customers : HandleCheckout(u) /\ placing[u] = 0 /\ Len(orders') <= TwoOrders
    \/ \E u \in Customers : CheckoutResolved(u)
    \/ \E o \in OrderIds :
          ApproveOrder(o) /\ StatusAtCall(o) = "pending" /\ BagCardinality(runs') <= MaxRuns
    \/ \E o \in OrderIds :
          OwnerApproveOrder(o) /\ StatusAtCall(o) = "pending" /\ BagCardinality(runs') <= MaxRuns
    \/ \E o \in OrderIds : CancelOrder(o) /\ StatusAtCall(o) = "pending"
    \/ \E r \in Busy : ApproveOrderRead(r)
    \/ \E r \in Busy : ApproveOrderWrite(r)
    \/ \E r \in Busy : OwnerApproveOrderStatus(r)
    \/ \E r \in Busy : OwnerApproveOrderRead(r)
    \/ \E r \in Busy : OwnerApproveOrderWrite(r)

SpecPair == Init /\ [][NextPair]_vars

\* The cart of each customer's portal session: lines are set to a quantity from
\* CartQtyInputs, removed unit by unit and cleared.
NextCart ==
    \/ \E u \in Customers : SignUp(u)
    \/ \E u \in Customers : Login(u)
    \/ \E u \in Customers : HandleUpload(u)
    \/ \E u \in Customers : ApprovePayment(u) /\ ~users[u].paid
    \/ \E u \in Customers : \E i \in Items : \E q \in CartQtyInputs : SetCartQty(u, i, q)
    \/ \E u \in Customers : \E i \in Items : RemoveFromCart(u, i)
    \/ \E u \in Customers : ClearCart(u)

SpecCart == Init /\ [][NextCart]_vars

\* The cart view of one portal session and its checkout: the quantity buttons
\* act on the lines the cart holds
NextCartCheckout ==
    \/ \E u \in Actors : SignUp(u)
    \/ \E u \in Actors : Login(u)
    \/ \E u \in Actors : HandleUpload(u)
    \/ \E u \in Actors : ApprovePayment(u) /\ ~users[u].paid
    \/ \E u \in Actors : \E i \in Items : AddToCart(u, i)
    \/ \E u \in Actors : \E i \in DOMAIN cart[u] :
           \E q \in {LineQty(cart[u], i) - 1, LineQty(cart[u], i) + 1} : SetCartQty(u, i, q)
    \/ \E u \in Actors : \E i \in Items : RemoveFromCart(u, i)
    \/ \E u \in Actors : ClearCart(u)
    \/ \E u \in Actors : HandleCheckout(u) /\ placing[u] = 0 /\ Len(orders') <= MaxOrders
    \/ \E u \in Actors : CheckoutResolved(u)

SpecCartCheckout == Init /\ [][NextCartCheckout]_vars

\* One owner session over the plan periods of one customer: the owner starts
\* nothing and no day passes while an approve handler of theirs is in progress.
NextRenewal ==
    \/ \E u \in Actors : SignUp(u)
    \/ \E u \in Actors : Login(u)
    \/ \E u \in Actors : HandleUpload(u)
    \/ \E u \in Actors : \E i \in Items : \E q \in LedgerQtyInputs : SetCartQty(u, i, q)
    \/ \E u \in Actors : HandleCheckout(u) /\ Len(orders') <= TwoOrders
    \/ \E u \in Actors : CheckoutResolved(u)
    \/ \E u \in Actors : ApprovePayment(u) /\ Busy = {}
    \/ \E u \in Actors : MarkForRenew(u) /\ Busy = {}
    \/ \E o \in OrderIds : ApproveOrder(o) /\ StatusAtCall(o) = "pending" /\ Busy = {}
    \/ \E o \in OrderIds : OwnerApproveOrder(o) /\ StatusAtCall(o) = "pending" /\ Busy = {}
    \/ \E r \in Busy : ApproveOrderRead(r)
    \/ \E r \in Busy : ApproveOrderWrite(r)
    \/ \E r \in Busy : OwnerApproveOrderStatus(r)
    \/ \E r \in Busy : OwnerApproveOrderRead(r)
    \/ \E r \in Busy : OwnerApproveOrderWrite(r)
    \/ \E d \in LedgerDaySteps : Tick(d) /\ Busy = {}

SpecRenewal == Init /\ [][NextRenewal]_vars

\* ------------------------------------------------------------- properties

\* C4: for every customer plan, in every reachable state,
\* 0 <= mealsRemaining <= totalMeals. A field the document does not hold is read
\* as the code reads it: totalMeals ?? 30, mealsRemaining ?? 0 on the dashboard
\* and ?? 30 in the approve handlers.
C4_BalanceWithinCapacity ==
    \A u \in Customers :
        users[u].exists =>
            \A d \in {0, PLAN_CAPACITY} :
                LET mr == IF users[u].mealsRemaining = NULL THEN d
                          ELSE users[u].mealsRemaining
                IN  0 <= mr /\ mr <= TotalMealsOf(u)

\* an approval has just written a balance that the subtraction alone would have
\* made negative
C4_Witness ==
    /\ last.op = "approveOrder"
    /\ last.res = "approved"
    /\ last.rem0 # NULL
    /\ ~orders[last.order].isExtraOrder
    /\ last.rem0 - TotalQty(orders[last.order].items) < 0
    /\ users[last.user].mealsRemaining = 0
    /\ users[last.user].totalMeals = 30

\* C10: Approve Payment, from any prior state of the plan, results in paid = true,
\* paymentSubmitted = false, totalMeals = mealsRemaining = 30, startDate = now and
\* endDate = startDate + 30 days, whatever the plan held before.
C10_ApprovePaymentResets ==
    [][\A u \in Customers :
          (ApprovePayment(u) \/ OwnerApprovePlan(u)) =>
              /\ users'[u].paid
              /\ ~users'[u].paymentSubmitted
              /\ users'[u].totalMeals = 30
              /\ users'[u].mealsRemaining = 30
              /\ users'[u].startDate = now
              /\ users'[u].endDate = users'[u].startDate + 30]_vars

\* Approve Payment has just been applied to an active plan with partially used
\* capacity, at a later day than its first activation
C10_Witness ==
    /\ last.op = "approvePayment"
    /\ last.st0 = "active"
    /\ last.rem0 > 0 /\ last.rem0 < 30
    /\ now > 0
    /\ users[last.user].mealsRemaining = 30
    /\ users[last.user].startDate = now

\* C8: price([], false) = 0; price([(item, 1)], false) = item.unitPrice for the
\* items of the catalog; price(items, true) = round(price(items, false) * 1.2).
\* Amounts are in tenths of a rupee.
C8_PriceRoundTrip ==
    calc.out # NULL =>
        /\ (calc.items = <<>> /\ ~calc.isExtra) => calc.out = 0
        /\ ( /\ Len(calc.items) = 1
             /\ ~calc.isExtra
             /\ calc.items[1].quantity = 1
             /\ \E i \in Items : MenuName(i) = calc.items[1].name )
           => calc.out = 10 * CatalogPrice(calc.items[1].name)
        /\ calc.isExtra =>
              calc.out = 10 * Round((calculatePrice(calc.items, FALSE) * 12) \div 10)

\* C1: when the approvals of two different pending non-extra orders of one
\* customer run concurrently, both decrements take effect: once both have ended the
\* balance is max(0, r - q1 - q2), r being the balance the activation set.
C1_BothDecrementsTakeEffect ==
    ( /\ runs = EmptyBag
      /\ Len(orders) = 2
      /\ orders[1].userID = orders[2].userID
      /\ \A k \in {1, 2} : orders[k].status = "approved" /\ ~orders[k].isExtraOrder )
    => users[orders[1].userID].mealsRemaining =
          Max(0, PLAN_CAPACITY - TotalQty(orders[1].items) - TotalQty(orders[2].items))

\* C2: approving an order a second time, after it is approved, is rejected and
\* changes nothing: the balance stays what it was at the call.
C2_SecondApproveRejected ==
    ( /\ last.op = "approveOrder"
      /\ last.st0 = "approved"
      /\ ~orders[last.order].isExtraOrder )
    => /\ last.res # "approved"
       /\ users[last.user].mealsRemaining = last.rem0

\* C3: of the approve attempts issued concurrently on one pending order only one
\* passes the pending -> approved gate, and the plan is decremented once.
C3_SoleGate ==
    /\ \A o \in OrderIds :
          SumOver([r \in {x \in Busy : x.order = o /\ x.pc \in {"read", "write"}}
                     |-> CopiesIn(r, runs)],
                  {x \in Busy : x.order = o /\ x.pc \in {"read", "write"}}) <= 1
    /\ ( /\ runs = EmptyBag
         /\ Len(orders) = 1
         /\ orders[1].status = "approved"
         /\ ~orders[1].isExtraOrder )
       => users[orders[1].userID].mealsRemaining =
             Max(0, PLAN_CAPACITY - TotalQty(orders[1].items))

\* C5: approving a pending non-extra order of total quantity q for a plan with
\* mealsRemaining = r leaves mealsRemaining = max(0, r - q), with every approve
\* implementation of the repository.
C5_ApproveDecrements ==
    ( /\ last.op = "approveOrder"
      /\ last.st0 = "pending"
      /\ last.res \in {"approved", "threw"}
      /\ last.rem0 # NULL
      /\ ~orders[last.order].isExtraOrder )
    => users[last.user].mealsRemaining =
          Max(0, last.rem0 - TotalQty(orders[last.order].items))

\* C6: an order created by checkout has isExtraOrder = true iff, at creation, the
\* plan is not active (not paid, or paid with endDate < now) or the order's total
\* quantity exceeds the plan's remaining capacity.
C6_ExtraIffInactiveOrOver ==
    [][\A u \in Actors :
          (HandleCheckout(u) /\ Len(orders') = Len(orders) + 1) =>
              (orders'[Len(orders')].isExtraOrder <=>
                  (~PlanActive(u) \/ TotalQty(cart[u]) > planRemaining(u)))]_vars

\* C7: while the plan is active with mealsRemaining = r, an add that would push
\* the cart's total quantity above r does not succeed.
C7_AddWithinBalance ==
    [][\A u \in Actors : \A i \in Items :
          ( /\ AddToCart(u, i)
            /\ PlanActive(u)
            /\ users[u].mealsRemaining # NULL
            /\ cartTotalQty(u) + 1 > users[u].mealsRemaining )
          => (cart' = cart /\ last'.res # "ok")]_vars

\* C9: the totalPrice of every order created by checkout is the sum of
\* unitPrice * quantity over its items, multiplied by 1.2 and rounded when the
\* order is an extra order.
C9_TotalPriceSurcharged ==
    \A k \in OrderIds :
        orders[k].totalPrice =
            IF orders[k].isExtraOrder
            THEN Round(TotalPrice(orders[k].items) * 12)
            ELSE TotalPrice(orders[k].items)

\* C11: an order's status only moves pending -> approved or pending -> cancelled;
\* approved and cancelled are terminal and no order returns to pending.
C11_StatusLifecycle ==
    [][\A o \in OrderIds :
          orders'[o].status # orders[o].status =>
              /\ orders[o].status = "pending"
              /\ orders'[o].status \in {"approved", "cancelled"}]_vars

\* C12 as stated: while the plan is active, an add of an item that 5 distinct
\* approved-or-pending plan orders of the current period include is rejected with
\* ItemMaxedForPlan.
C12_ItemMaxedRejected ==
    [][\A u \in Actors : \A i \in Items :
          ( /\ AddToCart(u, i)
            /\ PlanActive(u)
            /\ Cardinality({k \in OrderIds :
                              /\ orders[k].userID = u
                              /\ ~orders[k].isExtraOrder
                              /\ orders[k].status \in {"approved", "pending"}
                              /\ orders[k].date >= users[u].startDate
                              /\ orders[k].date <= users[u].endDate
                              /\ i \in DOMAIN orders[k].items}) >= PER_ITEM_MAX )
          => (cart' = cart /\ last'.res = "ItemMaxedForPlan")]_vars

\* C12 amended: such an add is rejected, with PlanFull when the quantities of the
\* period's plan orders add up to the plan capacity or more and with
\* ItemMaxedForPlan otherwise; and an add is rejected with ItemMaxedForPlan only
\* when 5 distinct plan orders of the period include the item, whatever the
\* quantities of their lines.
C12_ItemMaxedOrPlanFull ==
    [][\A u \in Actors : \A i \in Items :
          AddToCart(u, i) =>
            /\ ( /\ PlanActive(u)
                 /\ Cardinality({k \in OrderIds :
                                   /\ orders[k].userID = u
                                   /\ ~orders[k].isExtraOrder
                                   /\ orders[k].status \in {"approved", "pending"}
                                   /\ orders[k].date >= users[u].startDate
                                   /\ orders[k].date <= users[u].endDate
                                   /\ i \in DOMAIN orders[k].items}) >= PER_ITEM_MAX )
               => /\ cart' = cart
                  /\ last'.res = IF planUsedCount(u) >= PLAN_CAPACITY
                                 THEN "PlanFull" ELSE "ItemMaxedForPlan"
            /\ last'.res = "ItemMaxedForPlan"
               => Cardinality({k \in OrderIds :
                                 /\ orders[k].userID = u
                                 /\ ~orders[k].isExtraOrder
                                 /\ orders[k].date >= users[u].startDate
                                 /\ orders[k].date <= users[u].endDate
                                 /\ i \in DOMAIN orders[k].items}) >= PER_ITEM_MAX]_vars

\* an add has just been rejected as maxed for an item that five one-unit plan
\* orders include, some approved and some pending
C12_Witness ==
    /\ last.op = "addToCart"
    /\ last.res = "ItemMaxedForPlan"
    /\ Len(orders) = PER_ITEM_MAX
    /\ \A k \in OrderIds : ~orders[k].isExtraOrder /\ TotalQty(orders[k].items) = 1
    /\ \E k \in OrderIds : orders[k].status = "approved"
    /\ \E k \in OrderIds : orders[k].status = "pending"
    /\ PlanActive(last.user)

\* C13: approving an order whose isExtraOrder is true leaves every customer's plan
\* unchanged, with every approve implementation; a handler writes the plan only
\* when the order it approves is not an extra order.
C13_ExtraApprovalLeavesPlans ==
    [][ /\ \A o \in OrderIds :
              ( /\ orders[o].isExtraOrder
                /\ ApproveOrder(o) \/ OwnerApproveOrder(o) \/ LegacyApproveOrder(o) )
              => /\ users' = users
                 /\ \A r \in BagToSet(runs') : r.order = o => r.impl # "owner"
        /\ \A r \in Busy :
              ( /\ orders[r.order].isExtraOrder
                /\ \/ ApproveOrderRead(r) \/ ApproveOrderWrite(r)
                   \/ OwnerApproveOrderStatus(r) \/ OwnerApproveOrderRead(r)
                   \/ OwnerApproveOrderWrite(r) \/ LegacyApproveOrderRead(r)
                   \/ ApproveOrderFails(r) )
              => /\ users' = users
                 /\ \A r2 \in BagToSet(runs') :
                       (r2.order = r.order /\ r2.impl # "legacy") => r2.pc = "status"
        /\ users' # users =>
              \A r \in Busy : runs' = Finish(r) /\ runs' # runs => ~orders[r.order].isExtraOrder ]_vars

\* the approval of a pending extra order of a customer with an active plan has
\* ended in success, and the balance is the one the plan held at the call
C13_Witness ==
    /\ last.op = "approveOrder"
    /\ last.res = "approved"
    /\ last.st0 = "pending"
    /\ orders[last.order].isExtraOrder
    /\ orders[last.order].status = "approved"
    /\ PlanActive(last.user)
    /\ last.rem0 = PLAN_CAPACITY - 20
    /\ users[last.user].mealsRemaining = last.rem0

\* C14: order approval and its plan decrement are atomic or recoverable: when the
\* approval of a pending non-extra order has failed and no approval is in
\* progress, either the order's quantity has been subtracted from the customer's
\* mealsRemaining, or nothing of the approval is committed and the order screens
\* still offer the approval (the order's status is not approved).
C14_ApprovalAtomicOrRetriable ==
    ( /\ runs = EmptyBag
      /\ last.op = "approveOrder"
      /\ last.res = "failed"
      /\ last.st0 = "pending"
      /\ last.rem0 # NULL
      /\ ~orders[last.order].isExtraOrder )
    => \/ users[last.user].mealsRemaining =
             Max(0, last.rem0 - TotalQty(orders[last.order].items))
       \/ orders[last.order].status # "approved"

\* C15: cancel is applicable only to a pending order, sets its status to
\* cancelled and has no ledger effect: every customer's plan record is unchanged.
C15_CancelOnlyPending ==
    [][\A o \in OrderIds :
          CancelOrder(o) =>
              /\ orders[o].status = "pending"
              /\ orders'[o].status = "cancelled"
              /\ users' = users]_vars

\* C16: once an order is created its items and totalPrice never change; approve
\* and cancel modify only the status field.
C16_OrderImmutable ==
    [][\A o \in OrderIds :
          /\ orders'[o].items = orders[o].items
          /\ orders'[o].totalPrice = orders[o].totalPrice
          /\ [orders'[o] EXCEPT !.status = orders[o].status] = orders[o]]_vars

\* an order of two lines has been cancelled and then approved, and still holds
\* the items and the price it was created with
C16_Witness ==
    /\ last.op = "approveOrder"
    /\ last.res = "approved"
    /\ last.st0 = "cancelled"
    /\ orders[last.order].status = "approved"
    /\ orders[last.order].items = [i \in Items |-> 10]
    /\ orders[last.order].totalPrice = 1600

\* C17: a checkout re-triggered for the same cart, while the store write of the
\* first is still awaited and the cart is not yet cleared, creates no second
\* order.
C17_NoDoubleOrder ==
    [][\A u \in Actors :
          (HandleCheckout(u) /\ placing[u] > 0) => orders' = orders]_vars

\* C18: when the plan is not active (unpaid, or paid but past its endDate) a cart
\* add is never rejected with PlanFull, ItemMaxedForPlan or
\* ExceedsRemainingCapacity.
C18_NoRestrictionWhenInactive ==
    [][\A u \in Actors : \A i \in Items :
          (AddToCart(u, i) /\ ~PlanActive(u)) =>
              last'.res \notin {"PlanFull", "ItemMaxedForPlan", "ExceedsRemainingCapacity"}]_vars

\* C19: every cart line's quantity stays within [0, 10] after any sequence of
\* add, remove, setQuantity and clear.
C19_CartLineWithinCap ==
    \A u \in Customers : \A i \in DOMAIN cart[u] :
        0 <= cart[u][i] /\ cart[u][i] <= CART_LINE_CAP

\* C20: Request Renewal is available only when the plan is paid and
\* mealsRemaining <= 0, and its effect is exactly paymentSubmitted = true,
\* paid = false, mealsRemaining = 0, startDate = endDate = null: the plan is at
\* once neither active nor expired, but payment-submitted.
C20_RenewOnlyWhenUsedUp ==
    [][\A u \in Actors :
          HandleRenewPlan(u) =>
              /\ users[u].paid
              /\ users[u].mealsRemaining # NULL
              /\ users[u].mealsRemaining <= 0
              /\ users' = [users EXCEPT ![u] =
                              [users[u] EXCEPT !.paymentSubmitted = TRUE,
                                               !.paid = FALSE,
                                               !.mealsRemaining = 0,
                                               !.startDate = NULL,
                                               !.endDate = NULL]]
              /\ orders' = orders
              /\ ~users'[u].paid /\ users'[u].paymentSubmitted]_vars

\* the customer has just requested the renewal of a plan whose 30 meals are used
\* up, and the plan is unpaid with payment submitted and no dates
C20_Witness ==
    /\ last.op = "handleRenewPlan"
    /\ users[last.user].paymentSubmitted
    /\ ~users[last.user].paid
    /\ users[last.user].mealsRemaining = 0
    /\ users[last.user].startDate = NULL
    /\ users[last.user].endDate = NULL
    /\ users[last.user].totalMeals = PLAN_CAPACITY
    /\ \E k \in OrderIds : orders[k].status = "approved" /\ ~orders[k].isExtraOrder

\* C21: in every reachable state a plan with paid = true has non-null startDate
\* and endDate.
C21_PaidHasDates ==
    \A u \in Customers :
        (users[u].exists /\ users[u].paid) =>
            users[u].startDate # NULL /\ users[u].endDate # NULL

\* a plan whose renewal was requested (dates cleared) has just been approved
\* again, and is paid with the dates of the new period
C21_Witness ==
    /\ last.op = "approvePayment"
    /\ last.st0 = "submitted"
    /\ last.rem0 = 0
    /\ users[last.user].paid
    /\ users[last.user].startDate = now
    /\ users[last.user].endDate = now + PLAN_DAYS

\* C22: checkout with a cart that has no lines fails with EmptyCart before any
\* write: no order is created and the cart and all stored records are unchanged.
C22_EmptyCartRejected ==
    [][\A u \in Actors :
          (HandleCheckout(u) /\ DOMAIN cart[u] = {}) =>
              /\ last'.res = "EmptyCart"
              /\ orders' = orders
              /\ users' = users
              /\ cart' = cart
              /\ placing' = placing]_vars

\* a checkout of the cart a former checkout emptied has just been rejected
C22_Witness ==
    /\ last.op = "checkout"
    /\ last.res = "EmptyCart"
    /\ cart[last.user] = EmptyCart
    /\ placing[last.user] = 0
    /\ Len(orders) = 1

\* C23: a successful checkout persists the new order with status pending and then
\* empties the cart; when the order write fails no order is created and the cart
\* keeps its lines.
C23_CheckoutPersistsThenClears ==
    [][\A u \in Actors :
          /\ (HandleCheckout(u) /\ DOMAIN cart[u] # {}) =>
                /\ Len(orders') = Len(orders) + 1
                /\ SubSeq(orders', 1, Len(orders)) = orders
                /\ orders'[Len(orders')].status = "pending"
                /\ orders'[Len(orders')].userID = u
                /\ orders'[Len(orders')].items = cart[u]
                /\ cart' = cart
          /\ CheckoutResolved(u) =>
                /\ cart'[u] = EmptyCart
                /\ orders' = orders
          /\ HandleCheckoutFails(u) =>
                /\ orders' = orders
                /\ cart' = cart
                /\ last'.res = "failed"]_vars

\* after a checkout that succeeded and emptied the cart, the checkout of a new
\* cart has failed: the first order is stored pending and the cart keeps its line
C23_Witness ==
    /\ last.op = "checkout"
    /\ last.res = "failed"
    /\ Len(orders) = 1
    /\ orders[1].status = "pending"
    /\ placing[last.user] = 0
    /\ DOMAIN cart[last.user] # {}
    /\ cart[last.user] # orders[1].items

\* C24: approve on an order id that does not exist fails with OrderNotFound and
\* writes nothing: no order record is created or changed and no customer's plan
\* is changed.
C24_MissingOrderNotFound ==
    [][(ApproveOrderMissing \/ OwnerApproveOrderMissing) =>
          /\ last'.res = "OrderNotFound"
          /\ orders' = orders
          /\ users' = users]_vars

\* C25: whenever a cart add is rejected for a capacity reason (PlanFull,
\* ItemMaxedForPlan or ExceedsRemainingCapacity) no state is mutated: the cart,
\* the plans and the orders are the same before and after the call.
C25_RejectedAddMutatesNothing ==
    [][\A u \in Actors : \A i \in Items :
          ( /\ AddToCart(u, i)
            /\ last'.res \in {"PlanFull", "ItemMaxedForPlan", "ExceedsRemainingCapacity"} )
          => /\ cart' = cart
             /\ users' = users
             /\ orders' = orders
             /\ placing' = placing]_vars

\* an add has just been rejected as exceeding the remaining capacity, and the
\* cart still holds the line it held
C25_Witness ==
    /\ last.op = "addToCart"
    /\ last.res = "ExceedsRemainingCapacity"
    /\ placing[last.user] = 0
    /\ cart[last.user] = [i \in LedgerItems |-> PER_ITEM_MAX + 1]
    /\ Len(orders) = 4

\* C28: when several capacity rejections apply to one add on an active plan, the
\* reason reported follows the check order PlanFull (remaining capacity <= 0),
\* ItemMaxedForPlan (per-item distinct-order count >= 5), ExceedsRemainingCapacity
\* (cart total + 1 > remaining capacity). The remaining capacity is the plan
\* capacity less the quantities of the period's plan orders.
C28_RejectionOrder ==
    [][\A u \in Actors : \A i \in Items :
          (AddToCart(u, i) /\ PlanActive(u)) =>
              LET period == {k \in OrderIds :
                                /\ orders[k].userID = u
                                /\ ~orders[k].isExtraOrder
                                /\ orders[k].date >= users[u].startDate
                                /\ orders[k].date <= users[u].endDate}
                  used == SumOver([k \in period |-> orders[k].totalQty], period)
                  remaining == IF used >= PLAN_CAPACITY THEN 0 ELSE PLAN_CAPACITY - used
                  count == Cardinality({k \in period : i \in DOMAIN orders[k].items})
              IN  last'.res =
                    IF remaining <= 0 THEN "PlanFull"
                    ELSE IF count >= PER_ITEM_MAX THEN "ItemMaxedForPlan"
                    ELSE IF TotalQty(cart[u]) + 1 > remaining THEN "ExceedsRemainingCapacity"
                    ELSE "ok"]_vars

\* an add was rejected as maxed for the plan although the cart would also have
\* exceeded the remaining capacity
C28_Witness ==
    /\ last.op = "addToCart"
    /\ last.res = "ItemMaxedForPlan"
    /\ Len(orders) = PER_ITEM_MAX
    /\ \A k \in OrderIds : ~orders[k].isExtraOrder /\ LedgerItems \subseteq DOMAIN orders[k].items
    /\ planRemaining(last.user) > 0
    /\ cartTotalQty(last.user) + 1 > planRemaining(last.user)

\* C26: submitting a payment receipt changes nothing in the plan ledger besides
\* paymentSubmitted and the stored receipt: paid, totalMeals, mealsRemaining,
\* startDate and endDate are left unchanged by every receipt-submission path.
C26_ReceiptLeavesLedger ==
    [][\A u \in Actors :
          (HandleUpload(u) \/ HandleUploadReceipt(u)) =>
              /\ users'[u].paid = users[u].paid
              /\ users'[u].totalMeals = users[u].totalMeals
              /\ users'[u].mealsRemaining = users[u].mealsRemaining
              /\ users'[u].startDate = users[u].startDate
              /\ users'[u].endDate = users[u].endDate]_vars

\* C27: the plan ledgers of different customers are independent: approving,
\* cancelling or creating an order of customer A, and approving A's payment or
\* renewal, never changes any field of customer B's plan.
C27_LedgersIndependent ==
    [][ /\ \A u \in Customers :
              (ApprovePayment(u) \/ OwnerApprovePlan(u) \/ HandleCheckout(u))
              => \A v \in Customers \ {u} : users'[v] = users[v]
        /\ \A o \in OrderIds :
              (ApproveOrder(o) \/ OwnerApproveOrder(o) \/ CancelOrder(o))
              => \A v \in Customers \ {orders[o].userID} : users'[v] = users[v]
        /\ \A r \in Busy :
              ( \/ ApproveOrderRead(r) \/ ApproveOrderWrite(r)
                \/ OwnerApproveOrderStatus(r) \/ OwnerApproveOrderRead(r)
                \/ OwnerApproveOrderWrite(r) )
              => \A v \in Customers \ {orders[r.order].userID} : users'[v] = users[v] ]_vars

\* the approval of the second customer's order has just decremented that
\* customer's plan, and the first customer's plan, with its own pending order,
\* holds all its meals
C27_Witness ==
    /\ last.op = "approveOrder"
    /\ last.res = "approved"
    /\ last.user = "c2"
    /\ users["c2"].mealsRemaining = PLAN_CAPACITY - 10
    /\ users["c1"].paid
    /\ users["c1"].mealsRemaining = PLAN_CAPACITY
    /\ Len(orders) = 2
    /\ orders[1].userID = "c1" /\ orders[1].status = "pending"
    /\ orders[2].userID = "c2"

\* C29: cart remove on a line with quantity n >= 1 leaves quantity n - 1, deletes
\* the line when the result is 0, is a no-op for an item that is not in the cart,
\* and never changes any other line.
C29_RemoveDecrements ==
    [][\A u \in Customers : \A i \in Items :
          RemoveFromCart(u, i) =>
              /\ i \notin DOMAIN cart[u] => cart' = cart
              /\ (i \in DOMAIN cart[u] /\ cart[u][i] = 1) => i \notin DOMAIN cart'[u]
              /\ (i \in DOMAIN cart[u] /\ cart[u][i] > 1) =>
                    (i \in DOMAIN cart'[u] /\ cart'[u][i] = cart[u][i] - 1)
              /\ \A j \in Items \ {i} :
                    /\ j \in DOMAIN cart'[u] <=> j \in DOMAIN cart[u]
                    /\ j \in DOMAIN cart[u] => cart'[u][j] = cart[u][j]
              /\ \A v \in Customers \ {u} : cart'[v] = cart[v]
              /\ users' = users /\ orders' = orders]_vars

\* two units have been removed from a line set to 3 and the line removed down to
\* nothing in the other customer's cart, the other lines being as set
C29_Witness ==
    /\ cart["c1"] = [i \in Items |-> IF i \in LedgerItems THEN 1 ELSE 3]
    /\ route["c2"] = "portal"
    /\ DOMAIN cart["c2"] = Items \ LedgerItems

\* C30: while the plan is active, the total quantity in the cart never exceeds the
\* remaining plan capacity after any cart operation, setQuantity included: a cart
\* operation on a cart that is within the remaining capacity (the stored
\* mealsRemaining and the capacity the portal derives from the period's orders)
\* leaves the cart within the remaining capacity (the larger of the two).
C30_CartWithinCapacity ==
    [][\A u \in Actors :
          ( /\ PlanActive(u)
            /\ users[u].mealsRemaining # NULL
            /\ cartTotalQty(u) <= Min(planRemaining(u), users[u].mealsRemaining)
            /\ \/ \E i \in Items : AddToCart(u, i) \/ RemoveFromCart(u, i)
               \/ \E i \in Items : \E q \in LedgerQtyInputs : SetCartQty(u, i, q)
               \/ ClearCart(u) )
          => TotalQty(cart'[u]) <= Max(planRemaining(u), users[u].mealsRemaining)]_vars

\* C31: every order created by checkout has total quantity >= 1 and every item
\* in it has quantity >= 1: a cart line whose quantity was set to 0 is never
\* turned into an order item.
C31_OrderItemsPositive ==
    \A k \in OrderIds :
        /\ orders[k].totalQty >= 1
        /\ \A i \in DOMAIN orders[k].items : orders[k].items[i] >= 1

\* C32: for each plan activation, the total quantity over all the non-extra
\* orders the customer creates while that activation is the current plan,
\* orders created after its endDate included, never exceeds the plan capacity
\* of 30.
C32_ActivationWithinCapacity ==
    \A u \in Customers :
        (planPaid(u) /\ planStart(u) # NULL) =>
            LET created == {k \in OrderIds : /\ orders[k].userID = u
                                             /\ ~orders[k].isExtraOrder
                                             /\ orders[k].date >= planStart(u)}
            IN  SumOver([k \in created |-> orders[k].totalQty], created) <= PLAN_CAPACITY

\* C33: cancelled orders do not count toward the used plan capacity or the
\* per-item order counts: once a pending plan order of the period is cancelled,
\* the remaining capacity and the per-item counts the portal derives are those
\* of the period's other plan orders.
C33_CancelledNotCounted ==
    [][\A o \in OrderIds :
         (/\ CancelOrder(o)
          /\ orders[o].status = "pending"
          /\ o \in userPlanOrders(orders[o].userID))
         => LET u == orders[o].userID
                others == userPlanOrders(u) \ {o}
            IN  /\ planRemaining(u)' =
                     Max(0, PLAN_CAPACITY
                            - SumOver([k \in others |-> TotalQty(orders[k].items)], others))
                /\ \A i \in Items :
                     itemPlanCounts(u, i)' =
                         Cardinality({k \in others : i \in DOMAIN orders[k].items})]_vars

\* C34: a non-extra order consumes only the plan activation under which it was
\* created: the approval of a non-extra order dated before the start of the
\* customer's current plan window leaves the plan's mealsRemaining as it is.
C34_OldOrderLeavesCurrentPlan ==
    [][\A r \in Busy :
         LET u == orders[r.order].userID
         IN  (/\ ApproveOrderWrite(r) \/ OwnerApproveOrderWrite(r)
              /\ ~orders[r.order].isExtraOrder
              /\ planStart(u) # NULL
              /\ orders[r.order].date < planStart(u))
             => users'[u].mealsRemaining = users[u].mealsRemaining]_vars

\* C35: the plan is in exactly one of the states Inactive, PaymentSubmitted,
\* Active, Expired: in no reachable state are paid and paymentSubmitted both
\* true.
C35_PaidExcludesSubmitted ==
    \A u \in Customers : ~(users[u].paid /\ users[u].paymentSubmitted)

====
